---- MODULE Spec2Model ----
(***************************************************************************)
(* Model of the hydra_code multi-agent orchestration engine:               *)
(*   - the four bounded tool-use loops (module worker, repair,             *)
(*     integration, quick response),                                       *)
(*   - ParallelCollaborator.execute (design, batches, repair, integration, *)
(*     summary),                                                           *)
(*   - DynamicCoordinator.collaborate (routing and workflow selection).    *)
(* Agents and tools are external: what they answer is an input, drawn from *)
(* bounded sets of scripted behaviours.                                    *)
(***************************************************************************)
EXTENDS Integers, Sequences, FiniteSets, TLC

VARIABLES
    agents,          \* set of configured roles (keys of self.agents)
    entry,           \* the public entry point the caller used
    pc,              \* where the session stands
    force_mode,      \* DynamicCoordinator.force_mode
    response,        \* what the classifier answered inside _analyze_request
    routing,         \* the RoutingResult of _analyze_request
    workflow,        \* the workflows collaborate() has started, in order
    is_timeout,      \* what DynamicCoordinator._is_timeout() would answer now
    planner_response, \* what the planner answered inside _design_architecture
    architecture,    \* ParallelCollaborator.architecture
    todo_list,       \* ParallelCollaborator.todo_list.items, the checklist
    tasks,           \* ParallelCollaborator.tasks, tasks[i] is "module_{i-1}"
    batch_idx,       \* batches of execution_order iterated so far
    workers,         \* workers[b]: the coroutines gathered for batch b
    failed_modules,  \* the list _integrate_modules builds before repairing
    repair_idx,      \* position of the repair pass in failed_modules
    repairs,         \* log of the _repair_module calls made
    manifest,        \* module_outputs, the integration manifest
    integration,     \* what the integration loop and the summary call did
    progress,        \* _current_phase, _progress_current, _progress_total
    result,          \* what the entry point returned
    fault,           \* the exception that left the entry point, if any
    loop_kind,       \* which tool-use loop the loop specification runs
    script,          \* the scripted behaviour of the agent and tools of that loop
    loop,            \* the local state of the running loop
    message_queue,   \* CollaborationState.message_queue
    pending_requests, \* CollaborationState.pending_requests, by message id
    bus_log,         \* what was broadcast, who polled, what each poll returned
    results,         \* the list handed to ResultAggregator.aggregate
    aggregated,      \* the AggregatedResult it returned
    text_length,     \* len(user_input) of the request TaskDispatcher.analyze is given
    scores,          \* what _classify_intent counted for it, per tag
    analysis,        \* the TaskAnalysis (task type and SubTask list)
    clients,         \* MultiModelOrchestrator.clients: the roles configured
    fanout,          \* the coroutines _execute_parallel hands to asyncio.gather
    dependent_idx,   \* how many SubTasks with dependencies have been begun
    dependent_running, \* _handle_complex_task is awaiting one of them
    dispatch_log     \* which SubTask started and finished when, and with what

coordVars == <<force_mode, response, routing, workflow, is_timeout>>
engineVars == <<planner_response, architecture, todo_list, tasks, batch_idx, workers,
                failed_modules, repair_idx, repairs, manifest, integration, progress>>
sessionVars == <<entry, pc, result, fault>>
loopVars == <<loop_kind, script, loop>>
busVars == <<message_queue, pending_requests, bus_log>>
aggregatorVars == <<results, aggregated>>
dispatcherVars == <<text_length, scores, analysis>>
orchestratorVars == <<clients, fanout, dependent_idx, dependent_running, dispatch_log>>
componentVars == <<message_queue, pending_requests, bus_log, results, aggregated,
                   text_length, scores, analysis, clients, fanout, dependent_idx,
                   dependent_running, dispatch_log>>
vars == <<agents, entry, pc, force_mode, response, routing, workflow, is_timeout,
          planner_response, architecture, todo_list, tasks, batch_idx, workers,
          failed_modules, repair_idx, repairs, manifest, integration, progress,
          result, fault, loop_kind, script, loop,
          message_queue, pending_requests, bus_log, results, aggregated,
          text_length, scores, analysis, clients, fanout, dependent_idx,
          dependent_running, dispatch_log>>

(***************************************************************************)
(* Bounds of the model.                                                    *)
(***************************************************************************)
MaxToolCalls == 1     \* tool calls carried by one agent response
MaxHead == 1          \* turns of an agent script before it becomes periodic

(***************************************************************************)
(* Program constants.                                                      *)
(***************************************************************************)
ModuleMaxIterations == 15
RepairMaxIterations == 10
IntegrateMaxIterations == 30
QuickMaxIterations == 10

ModelRole == {"fast", "pro", "sonnet", "opus"}

SeqUpTo(S, n) == UNION {[1..k -> S] : k \in 0..n}

(***************************************************************************)
(* One turn of an agent, with the outcome of every tool call it asks for.  *)
(*   tools : the response carries tool calls; calls[k] is what happens to  *)
(*           the k-th one (ok / the tool reports failure / the tool raises *)
(*           / no tool of that name is registered)                         *)
(*   text  : content without tool calls and without "[REQUEST_HELP"        *)
(*   empty : content None and no tool calls                                *)
(*   error : the agent call raised or timed out                            *)
(*   help  : content holding "[REQUEST_HELP", no tool calls; target is the *)
(*           role the tag names ("malformed": the tag does not parse,      *)
(*           "nobody": not one of the four role names); advice is what the *)
(*           helper's side-call returns                                    *)
(***************************************************************************)
ToolOutcome == {"ok", "fail", "raise", "unregistered"}

Turn(k, c, t, a) == [kind |-> k, calls |-> c, target |-> t, advice |-> a]

ToolTurns == {Turn("tools", c, "", "") : c \in SeqUpTo(ToolOutcome, MaxToolCalls) \ {<<>>}}

PlainTurns == {Turn("text", <<>>, "", ""), Turn("empty", <<>>, "", ""),
               Turn("error", <<>>, "", "")}

HelpTurns == {Turn("help", <<>>, "opus", a) : a \in {"text", "blank", "error"}}
             \cup {Turn("help", <<>>, "nobody", ""), Turn("help", <<>>, "malformed", "")}

Turns == ToolTurns \cup PlainTurns \cup HelpTurns

\* An agent behaviour: head, then tail for ever.
Scripts == [head : SeqUpTo(Turns, MaxHead), tail : Turns]

TurnAt(s, n) == IF n <= Len(s.head) THEN s.head[n] ELSE s.tail

(***************************************************************************)
(* The local state of one tool-use loop.                                   *)
(*   i            iterations begun (the for-loop index, counted from 1)    *)
(*   agent_calls  agent calls made, side-calls for help included           *)
(*   tool_execs   tool.execute calls made                                  *)
(*   messages     the history list, by kind of message                     *)
(*   appended     what the latest iteration appended to messages           *)
(*   content      response.content of the latest response, by kind         *)
(*   stream_buffer  the integration loop's list of contents                *)
(*   end          "running", or how the loop ended                         *)
(*   status, issues, code_output   the fields of the ParallelTask the loop *)
(*                was handed (module and repair loops)                     *)
(***************************************************************************)
NewLoop(task) ==
    [i |-> 0, agent_calls |-> 0, tool_execs |-> 0,
     messages |-> <<"system", "user">>, appended |-> <<>>,
     content |-> "none", stream_buffer |-> <<>>, end |-> "running",
     status |-> task.status, issues |-> task.issues, code_output |-> task.code_output]

\* ParallelTask(...): status PENDING, no issues, code_output "".
NewTask == [status |-> "pending", issues |-> <<>>, code_output |-> "blank"]

\* The Message an agent call hands back (_call_agent_with_tools turns a raise
\* or a timeout into an assistant message "Error: ...").
ResponseMessage(turn) ==
    CASE turn.kind = "tools" -> "assistant_tool_calls"
      [] turn.kind = "text"  -> "assistant_text"
      [] turn.kind = "empty" -> "assistant_empty"
      [] turn.kind = "error" -> "assistant_error"
      [] turn.kind = "help"  -> "assistant_marker"

\* response.content, by kind; "none" is Python's None.
ResponseContent(turn) ==
    CASE turn.kind = "tools" -> "none"
      [] turn.kind = "text"  -> "text"
      [] turn.kind = "empty" -> "none"
      [] turn.kind = "error" -> "error"
      [] turn.kind = "help"  -> "marker"

\* response = await self._call_agent_with_tools(...); messages.append(response)
Respond(L, turn) ==
    [L EXCEPT !.i = @ + 1, !.agent_calls = @ + 1,
              !.messages = Append(@, ResponseMessage(turn)),
              !.appended = <<ResponseMessage(turn)>>,
              !.content = ResponseContent(turn)]

AppendMessage(L, m) ==
    [L EXCEPT !.messages = Append(@, m), !.appended = Append(@, m)]

(***************************************************************************)
(* tool.execute and the message appended for the call.  _quick_response    *)
(* awaits it bare; the three loops of parallel.py wrap it in               *)
(* try/except Exception, so a raise becomes a message too.                 *)
(***************************************************************************)
ExecuteUncaught(outcome) ==
    CASE outcome = "ok"    -> [message |-> "tool_output", raised |-> FALSE]
      [] outcome = "fail"  -> [message |-> "tool_error", raised |-> FALSE]
      [] outcome = "raise" -> [message |-> "", raised |-> TRUE]

ExecutePropagating(outcome) == ExecuteUncaught(outcome)

ExecuteCaught(outcome) ==
    CASE outcome = "ok"    -> [message |-> "tool_output", raised |-> FALSE]
      [] outcome = "fail"  -> [message |-> "tool_error", raised |-> FALSE]
      [] outcome = "raise" -> [message |-> "tool_exception", raised |-> FALSE]

\* for tool_call in response.tool_calls: tool = registry.get(name); if tool: ...
RECURSIVE ExecuteToolCalls(_, _)
ExecuteToolCalls(L, calls) ==
    IF calls = <<>> \/ L.end # "running" THEN L
    ELSE IF Head(calls) = "unregistered" THEN ExecuteToolCalls(L, Tail(calls))
    ELSE LET r == ExecuteCaught(Head(calls))
             L1 == [L EXCEPT !.tool_execs = @ + 1]
         IN  IF r.raised
             THEN [L1 EXCEPT !.end = "raised"]
             ELSE ExecuteToolCalls(AppendMessage(L1, r.message), Tail(calls))

(***************************************************************************)
(* _handle_help_request: None when the tag does not parse or names no      *)
(* role, a fixed text when the role is not configured, else the helper's   *)
(* answer (one side-call through _call_agent, which returns "" for an      *)
(* empty answer and "Error: ..." for a failed call).                       *)
(***************************************************************************)
HandleHelpRequest(turn, ag) ==
    IF turn.target \notin ModelRole THEN [result |-> "none", called |-> FALSE]
    ELSE IF turn.target \notin ag THEN [result |-> "unavailable", called |-> FALSE]
    ELSE [result |-> turn.advice, called |-> TRUE]

\* Python truth of help_result.
Truthy(help_result) == help_result \in {"unavailable", "text", "error"}

ModuleExhaustedEarly(L) ==
    IF L.end = "running" /\ L.i = ModuleMaxIterations - 1
    THEN [L EXCEPT !.end = "failed", !.status = "failed",
                   !.issues = Append(@, "max_iterations")]
    ELSE L

\* The code after the module's for-loop: the budget is spent.
ModuleExhausted(L) ==
    IF L.end = "running" /\ L.i = ModuleMaxIterations
    THEN [L EXCEPT !.end = "failed", !.status = "failed",
                   !.issues = Append(@, "max_iterations")]
    ELSE L

\* task.code_output = response.content; task.status = TaskStatus.COMPLETED
Completed(L) ==
    [L EXCEPT !.end = "completed", !.status = "completed", !.code_output = L.content]

\* One iteration of the for-loop of _execute_module.
ModuleIteration(L, turn, ag) ==
    LET L1 == Respond(L, turn)
    IN  IF turn.kind = "tools" THEN ModuleExhausted(ExecuteToolCalls(L1, turn.calls))
        ELSE IF turn.kind = "empty"
        THEN [L1 EXCEPT !.end = "raised"]     \* "[REQUEST_HELP" in None: TypeError
        ELSE IF turn.kind = "help"
        THEN LET h == HandleHelpRequest(turn, ag)
                 L2 == [L1 EXCEPT !.agent_calls = IF h.called THEN @ + 1 ELSE @]
             IN  IF Truthy(h.result)
                 THEN ModuleExhausted(AppendMessage(L2, "user_help"))
                 ELSE Completed(L2)
        ELSE Completed(L1)

\* One iteration of the for-loop of _repair_module.
RepairIteration(L, turn) ==
    LET L1 == Respond(L, turn)
    IN  IF turn.kind = "tools"
        THEN LET L2 == ExecuteToolCalls(L1, turn.calls)
             IN  IF L2.end = "running" /\ L2.i = RepairMaxIterations
                 THEN [L2 EXCEPT !.end = "exhausted"] ELSE L2
        ELSE Completed(L1)

\* One iteration of the for-loop of _integrate_modules, inside its outer try.
IntegrationIteration(L, turn) ==
    LET L1 == Respond(L, turn)
        L2 == IF L1.content # "none"
              THEN [L1 EXCEPT !.stream_buffer = Append(@, L1.content)] ELSE L1
    IN  IF turn.kind = "tools"
        THEN LET L3 == ExecuteToolCalls(L2, turn.calls)
             IN  IF L3.end = "raised" \/ L3.i = IntegrateMaxIterations
                 THEN [L3 EXCEPT !.end = "done"] ELSE L3
        ELSE [L2 EXCEPT !.end = "done"]

\* The tool calls of _quick_response: no try around tool.execute, and an
\* unknown tool name is answered with a message.
RECURSIVE QuickToolCalls(_, _)
QuickToolCalls(L, calls) ==
    IF calls = <<>> \/ L.end # "running" THEN L
    ELSE IF Head(calls) = "unregistered"
    THEN QuickToolCalls(AppendMessage(L, "tool_unknown"), Tail(calls))
    ELSE LET r == ExecuteUncaught(Head(calls))
             L1 == [L EXCEPT !.tool_execs = @ + 1]
         IN  IF r.raised
             THEN [L1 EXCEPT !.end = "raised"]
             ELSE QuickToolCalls(AppendMessage(L1, r.message), Tail(calls))

\* One iteration of the for-loop of _quick_response.
QuickIteration(L, turn) ==
    LET L1 == Respond(L, turn)
    IN  IF turn.kind = "tools"
        THEN LET L2 == QuickToolCalls(L1, turn.calls)
             IN  IF L2.end = "running" /\ L2.i = QuickMaxIterations
                 THEN [L2 EXCEPT !.end = "returned", !.content = "max_iterations"]
                 ELSE L2
        ELSE [L1 EXCEPT !.end = "returned"]

(***************************************************************************)
(* The loops run to their end: what a coroutine has done when it returns.  *)
(***************************************************************************)
RECURSIVE RunModule(_, _, _)
RunModule(L, s, ag) ==
    IF L.end # "running" THEN L
    ELSE RunModule(ModuleIteration(L, TurnAt(s, L.i + 1), ag), s, ag)

RECURSIVE RunRepair(_, _)
RunRepair(L, s) ==
    IF L.end # "running" THEN L ELSE RunRepair(RepairIteration(L, TurnAt(s, L.i + 1)), s)

RECURSIVE RunIntegration(_, _)
RunIntegration(L, s) ==
    IF L.end # "running" THEN L
    ELSE RunIntegration(IntegrationIteration(L, TurnAt(s, L.i + 1)), s)

RECURSIVE RunQuick(_, _)
RunQuick(L, s) ==
    IF L.end # "running" THEN L ELSE RunQuick(QuickIteration(L, TurnAt(s, L.i + 1)), s)

TaskOf(L) == [status |-> L.status, issues |-> L.issues, code_output |-> L.code_output]

(***************************************************************************)
(* Agent configurations, and what the agents of a session can answer.      *)
(* collaborate() hands the collaborators the bare clients                  *)
(* ({r: a.client ...}), and ParallelCollaborator calls                     *)
(* agent.client.chat_stream: on a bare client that is an AttributeError    *)
(* inside the try of _call_agent / _call_agent_with_tools, so every agent  *)
(* call of the parallel engine reached through collaborate() is "error".   *)
(***************************************************************************)
AgentConfigs == {{}, {"fast"}, {"sonnet"}, {"pro"}, ModelRole}

Steady(turn) == [head |-> <<>>, tail |-> turn]

AgentScripts(e) ==
    IF e = "collaborate" THEN {Steady(Turn("error", <<>>, "", ""))}
    ELSE {Steady(t) : t \in Turns}

(***************************************************************************)
(* Plans.                                                                  *)
(***************************************************************************)
MaxBatches == 2       \* batches in a planned execution_order

ModuleSpec(n, r) == [name |-> n, role |-> r]

Plan(ms, order) == [modules |-> ms, execution_order |-> order]

NoArchitecture == Plan(<<>>, <<>>)

\* _create_default_architecture
DefaultArchitecture ==
    Plan(<<ModuleSpec("core", "pro"), ModuleSpec("ui", "sonnet"),
           ModuleSpec("integration", "opus")>>,
         <<<<"core", "ui">>, <<"integration">>>>)

\* the except branch of _design_architecture
FallbackArchitecture == Plan(<<ModuleSpec("core", "sonnet")>>, <<<<"core">>>>)

\* Module lists a planner's JSON may hold: none, one, two, two of one name.
PlanModules ==
    {<<>>,
     <<ModuleSpec("core", "sonnet")>>,
     <<ModuleSpec("core", "sonnet"), ModuleSpec("ui", "opus")>>,
     <<ModuleSpec("core", "sonnet"), ModuleSpec("core", "opus")>>}

ModuleNames(ms) == {ms[i].name : i \in 1..Len(ms)}

\* Batches a plan may list: one module, two distinct modules, one module
\* twice, and a name no module has next to a module.
PlanBatches(ms) ==
    LET N == ModuleNames(ms)
        first == ms[1].name
        last == ms[Len(ms)].name
    IN  {<<a>> : a \in N} \cup {<<first, last>>, <<first, first>>, <<"ghost", last>>}

PlannerPlans ==
    UNION {{Plan(ms, o) : o \in IF ms = <<>> THEN {<<>>}
                                ELSE SeqUpTo(PlanBatches(ms), MaxBatches)}
           : ms \in PlanModules}

NoPlan == NoArchitecture

PlannerResponses(e, ag) ==
    IF ag = {} THEN {[kind |-> "not_called", plan |-> NoPlan]}
    ELSE IF e = "collaborate" THEN {[kind |-> "error", plan |-> NoPlan]}
    ELSE {[kind |-> k, plan |-> NoPlan] : k \in {"error", "malformed"}}
         \cup {[kind |-> "json", plan |-> p] : p \in PlannerPlans}

\* _design_architecture
DesignArchitecture(ag, r) ==
    IF ag = {} THEN DefaultArchitecture
    ELSE IF r.kind = "json" THEN r.plan
    ELSE FallbackArchitecture

\* TodoList.add_task(content, id=module.name): a new item is PENDING
TodoItem(id) == [id |-> id, status |-> "pending"]

\* "Populate TodoList": clear(), then one add_task per parsed module
PopulateTodoList(modules) == [i \in 1..Len(modules) |-> TodoItem(modules[i].name)]

\* the status mapping at the head of _update_todo_item
TodoStatus(status) ==
    CASE status = "in_progress" -> "in_progress"
      [] status = "completed" -> "completed"
      [] status = "failed" -> "failed"
      [] status = "needs_help" -> "in_progress"
      [] OTHER -> "pending"

\* the for-loop of _update_todo_item: the first item of that id, then break
UpdateTodoItem(todo, module_name, status) ==
    IF \E i \in 1..Len(todo) : todo[i].id = module_name
    THEN LET k == CHOOSE i \in 1..Len(todo) :
                     todo[i].id = module_name /\ \A j \in 1..(i - 1) : todo[j].id # module_name
         IN  [todo EXCEPT ![k].status = TodoStatus(status)]
    ELSE todo

\* what _design_architecture leaves in self.todo_list: only the parsed path
\* reaches the "Populate TodoList" lines
DesignTodoList(todo, ag, r) ==
    IF ag # {} /\ r.kind = "json" THEN PopulateTodoList(r.plan.modules) ELSE todo

\* _find_task_by_module_name / _find_module_by_name: the first module of that
\* name, 0 for None.
FindModuleIndex(ms, name) ==
    IF \E i \in 1..Len(ms) : ms[i].name = name
    THEN CHOOSE i \in 1..Len(ms) :
            ms[i].name = name /\ \A j \in 1..(i - 1) : ms[j].name # name
    ELSE 0

Found(x) == x.task # 0

\* a mutant of Coroutines: the batch is given up at the first unknown name
CoroutinesUntilUnknown(arch, b) ==
    LET batch == arch.execution_order[b]
        all == [k \in 1..Len(batch) |->
                  [task |-> FindModuleIndex(arch.modules, batch[k]), name |-> batch[k],
                   batch |-> b, state |-> "created", exit |-> "", exit_status |-> ""]]
        known == {k \in 1..Len(batch) : \A j \in 1..k : all[j].task # 0}
    IN  [k \in known |-> all[k]]

\* The coroutines _parallel_execution builds for one batch.
Coroutines(arch, b) ==
    LET batch == arch.execution_order[b]
        all == [k \in 1..Len(batch) |->
                  [task |-> FindModuleIndex(arch.modules, batch[k]), name |-> batch[k],
                   batch |-> b, state |-> "created", exit |-> "", exit_status |-> ""]]
    IN  SelectSeq(all, Found)

\* asyncio.gather(*coroutines, return_exceptions=True)
GatherRaising(ws) ==
    IF \E k \in 1..Len(ws) : ws[k].exit = "raised" THEN "raised" ELSE "returned"

GatherOutcome(ws) == "returned"

NotCompleted(x) == x.status # "completed"

\* failed_modules of _integrate_modules, as module indices
FailedModules(ts) ==
    LET idx == [i \in 1..Len(ts) |-> [module |-> i, status |-> ts[i].status]]
        sel == SelectSeq(idx, NotCompleted)
    IN  [k \in 1..Len(sel) |-> sel[k].module]

\* opus = agents.get(OPUS) or agents.get(PRO) in _repair_module
RepairAgent(ag) ==
    IF "opus" \in ag THEN "opus" ELSE IF "pro" \in ag THEN "pro" ELSE "none"

IsCompleted(x) == x.status = "completed"

ManifestOfCompleted(arch, ts) ==
    SelectSeq([i \in 1..Len(ts) |-> [module |-> i, status |-> ts[i].status]], IsCompleted)

\* module_outputs of _integrate_modules
Manifest(arch, ts) ==
    [i \in 1..Len(ts) |-> [module |-> i, status |-> ts[i].status]]

NoIntegration == [ran |-> FALSE, summary_calls |-> 0]

\* _update_progress(phase, task, current, total): what the caller is shown
UpdateProgress(phase, current, total) ==
    [phase |-> phase, current |-> current, total |-> total]

\* the fields as __init__ leaves them
NoProgress == UpdateProgress("", 0, 0)

\* completed_modules of _parallel_execution after b batches:
\* "completed_modules += len(batch)" once per batch
RECURSIVE CompletedModules(_, _)
CompletedModules(arch, b) ==
    IF b = 0 THEN 0 ELSE CompletedModules(arch, b - 1) + Len(arch.execution_order[b])

SummaryOutcomes(e) ==
    IF e = "collaborate" THEN {"error"} ELSE {"text", "blank", "error"}

(***************************************************************************)
(* Routing: DynamicCoordinator._analyze_request.                           *)
(*   What the classifier hands back, by kind:                              *)
(*     none        content None                                            *)
(*     blank       the empty string                                        *)
(*     prose       text without a {...} span                               *)
(*     error       the "Error: ..." text of a failed or timed-out call     *)
(*     broken_json a {...} span json.loads rejects                         *)
(*     json        a JSON object; a key may be absent or hold a value      *)
(*                 outside the vocabulary                                  *)
(***************************************************************************)
TaskComplexity == {"simple", "moderate", "complex"}

RoutingResult(c, d, i, why) ==
    [complexity |-> c, domain |-> d, intent |-> i, reason |-> why, raised |-> FALSE]

NoRouting == RoutingResult("", "", "", "")

Reply(k, c, d, i) == [kind |-> k, complexity |-> c, domain |-> d, intent |-> i]

NoReply == Reply("not_called", "", "", "")

ClassifierResponses ==
    {Reply(k, "", "", "") : k \in {"none", "blank", "prose", "error", "broken_json"}}
    \cup {Reply("json", c, d, i) : c \in TaskComplexity \cup {"absent", "bogus"},
                                   d \in {"coding", "absent", "writing"},
                                   i \in {"new", "modify", "absent", "bogus"}}

\* re.search(r'\{[\s\S]+\}', response)
JsonMatch(r) ==
    CASE r.kind = "none" -> "TypeError"
      [] r.kind \in {"blank", "prose", "error"} -> "no_match"
      [] OTHER -> "match"

\* json.loads(json_match.group())
JsonLoads(r) == IF r.kind = "json" THEN "object" ELSE "JSONDecodeError"

\* result.get(key, default)
Get(v, default) == IF v = "absent" THEN default ELSE v

UncaughtRouting(exc) ==
    [RoutingResult("simple", "coding", "new", "Analysis failed") EXCEPT !.raised = TRUE]

\* except Exception as e: ... then the return at the end of _analyze_request
RoutingOnException(exc) == RoutingResult("simple", "coding", "new", "Analysis failed")

\* fast_agent = agents.get(FAST) or the first agent
FastAgent(ag) ==
    IF "fast" \in ag THEN "fast" ELSE IF ag # {} THEN CHOOSE r \in ag : TRUE ELSE "none"

AnalyzeRequest(ag, r) ==
    IF FastAgent(ag) = "none" THEN RoutingResult("simple", "coding", "new", "No fast_agent")
    ELSE IF JsonMatch(r) = "TypeError" THEN RoutingOnException("TypeError")
    ELSE IF JsonMatch(r) = "no_match"
    THEN RoutingResult("simple", "coding", "new", "Analysis failed")
    ELSE IF JsonLoads(r) # "object" THEN RoutingOnException("JSONDecodeError")
    ELSE LET c == Get(r.complexity, "simple")
         IN  RoutingResult(IF c \in TaskComplexity THEN c ELSE "simple",
                           Get(r.domain, "coding"), Get(r.intent, "new"), "json")

ForceModes == {"none", "simple", "complex"}

SelectWorkflowIntentFirst(fm, rt) ==
    IF fm = "simple" THEN "quick"
    ELSE IF fm = "complex" THEN "parallel"
    ELSE IF rt.intent = "modify" THEN "sequential"
    ELSE IF rt.complexity = "simple" THEN "quick"
    ELSE "parallel"

\* The branch collaborate() takes once routing is known.
SelectWorkflow(fm, rt) ==
    IF fm = "simple" THEN "quick"
    ELSE IF fm = "complex" THEN "parallel"
    ELSE IF rt.complexity = "simple" THEN "quick"
    ELSE IF rt.intent = "modify" THEN "sequential"
    ELSE "parallel"

\* opus_agent of _quick_response: OPUS, else FAST, else the first agent
QuickAgent(ag) ==
    IF "opus" \in ag THEN "opus" ELSE FastAgent(ag)

\* pro_agent of SequentialCollaborator._create_plan
SeqPlanner(ag) ==
    IF "pro" \in ag THEN "pro" ELSE IF "fast" \in ag THEN "fast" ELSE "none"

\* sonnet_agent of SequentialCollaborator._execute_plan
SeqExecutor(ag) ==
    IF "sonnet" \in ag THEN "sonnet"
    ELSE IF "opus" \in ag THEN "opus" ELSE IF "pro" \in ag THEN "pro" ELSE "none"

(***************************************************************************)
(* A session: one call of DynamicCoordinator.collaborate, or one call of   *)
(* ParallelCollaborator.execute with agents of its own.                    *)
(***************************************************************************)
Returned(from, value) == [from |-> from, value |-> value]

NoResult == Returned("", "")

IdleScript == Steady(Turn("text", <<>>, "", ""))

EngineIdle ==
    /\ planner_response = "not_called"
    /\ architecture = NoArchitecture
    /\ todo_list = <<>>
    /\ tasks = <<>>
    /\ batch_idx = 0
    /\ workers = <<>>
    /\ failed_modules = <<>>
    /\ repair_idx = 0
    /\ repairs = <<>>
    /\ manifest = <<>>
    /\ integration = NoIntegration
    /\ progress = NoProgress

\* no CollaborationState and no ResultAggregator is at work in a session
NoAggregated == [success |-> FALSE, content |-> <<>>, called |-> FALSE]

\* nothing has been sent, polled for or answered
NoCall == [op |-> "none", role |-> "", id |-> 0]

NoBusLog == [sent |-> <<>>, created |-> 0, replies |-> 0, polled |-> {}, delivered |-> {},
             responded |-> {}, last |-> NoCall]

\* TaskDispatcher.PATTERNS: the tags
Tags == {"simple_qa", "code_generation", "bug_fix", "algorithm", "architecture",
         "file_operation", "chinese_context"}

NoAnalysis == [task_type |-> "none", subtasks |-> <<>>]

DispatcherIdle ==
    /\ text_length = 0
    /\ scores = [t \in Tags |-> 0]
    /\ analysis = NoAnalysis

OrchestratorIdle ==
    /\ clients = {}
    /\ fanout = <<>>
    /\ dependent_idx = 0
    /\ dependent_running = FALSE
    /\ dispatch_log = <<>>

ComponentsIdle ==
    /\ message_queue = <<>>
    /\ pending_requests = {}
    /\ bus_log = NoBusLog
    /\ results = <<>>
    /\ aggregated = NoAggregated
    /\ DispatcherIdle
    /\ OrchestratorIdle

Init ==
    /\ agents \in AgentConfigs
    /\ entry \in {"execute", "collaborate"}
    /\ force_mode \in IF entry = "collaborate" THEN ForceModes ELSE {"none"}
    /\ pc = IF entry = "collaborate" THEN "routing" ELSE "design"
    /\ response = NoReply
    /\ routing = NoRouting
    /\ workflow = <<>>
    /\ is_timeout = FALSE
    /\ EngineIdle
    /\ result = NoResult
    /\ fault = ""
    /\ loop_kind = "none"
    /\ script = IdleScript
    /\ loop = NewLoop(NewTask)
    /\ ComponentsIdle

\* routing = await self._analyze_request(user_request)
Analyze ==
    /\ pc = "routing"
    /\ \E r \in IF FastAgent(agents) = "none" THEN {NoReply} ELSE ClassifierResponses :
         LET rt == AnalyzeRequest(agents, r)
         IN  /\ response' = r
             /\ routing' = rt
             /\ is_timeout' \in IF rt.raised THEN {is_timeout} ELSE BOOLEAN
             /\ IF rt.raised
                THEN pc' = "raised" /\ fault' = "analyze_request"
                ELSE pc' = "dispatch" /\ fault' = fault
    /\ UNCHANGED <<componentVars, agents, entry, force_mode, workflow, engineVars, result,
                   loopVars>>

\* the if-chain of collaborate()
Dispatch ==
    /\ pc = "dispatch"
    /\ LET w == SelectWorkflow(force_mode, routing)
       IN  /\ workflow' = Append(workflow, w)
           /\ pc' = CASE w = "quick" -> "quick"
                      [] w = "sequential" -> "seq_plan"
                      [] w = "parallel" -> "design"
    /\ response' = NoReply
    /\ UNCHANGED <<componentVars, agents, entry, force_mode, routing, is_timeout, engineVars,
                   result, fault, loopVars>>

\* _quick_response
QuickResponse ==
    /\ pc = "quick"
    /\ IF QuickAgent(agents) = "none"
       THEN pc' = "returned" /\ result' = Returned("quick", "no_model") /\ fault' = fault
       ELSE \E t \in Turns :
              LET L == RunQuick(NewLoop(NewTask), Steady(t))
              IN  IF L.end = "raised"
                  THEN pc' = "raised" /\ fault' = "tool_execute" /\ result' = result
                  ELSE pc' = "returned" /\ result' = Returned("quick", L.content)
                       /\ fault' = fault
    /\ UNCHANGED <<componentVars, agents, entry, coordVars, engineVars, loopVars>>

\* SequentialCollaborator._create_plan: agent.chat is awaited bare, and a
\* plan of None has no splitlines().
SeqCreatePlan ==
    /\ pc = "seq_plan"
    /\ IF SeqPlanner(agents) = "none"
       THEN pc' = "seq_exec" /\ fault' = fault
       ELSE \E r \in {"text", "none", "raise"} :
              CASE r = "text" -> pc' = "seq_exec" /\ fault' = fault
                [] r = "none" -> pc' = "raised" /\ fault' = "plan_none"
                [] r = "raise" -> pc' = "raised" /\ fault' = "agent_call"
    /\ UNCHANGED <<componentVars, agents, entry, coordVars, engineVars, result, loopVars>>

\* SequentialCollaborator._execute_plan: LiveStreamSession takes no title and
\* is no async context manager, so entering it is a TypeError.
SeqExecutePlan ==
    /\ pc = "seq_exec"
    /\ IF SeqExecutor(agents) = "none"
       THEN pc' = "returned" /\ result' = Returned("sequential", "no_executor")
            /\ fault' = fault
       ELSE pc' = "raised" /\ fault' = "live_session" /\ result' = result
    /\ UNCHANGED <<componentVars, agents, entry, coordVars, engineVars, loopVars>>

(***************************************************************************)
(* ParallelCollaborator.execute.                                           *)
(***************************************************************************)
\* self.architecture = await self._design_architecture(...)
Design ==
    /\ pc = "design"
    /\ \E r \in PlannerResponses(entry, agents) :
         LET a == DesignArchitecture(agents, r)
         IN  /\ planner_response' = r.kind
             /\ architecture' = a
             /\ todo_list' = DesignTodoList(todo_list, agents, r)
             /\ IF a.modules = <<>>
                THEN /\ pc' = "returned" /\ result' = Returned("parallel", "design_failed")
                     /\ progress' = UpdateProgress("design", 0, 3)
                ELSE /\ pc' = "tasks" /\ result' = result
                     /\ progress' = UpdateProgress("parallel", 1, 3)
    /\ UNCHANGED <<componentVars, agents, entry, coordVars, tasks, batch_idx, workers, failed_modules,
                   repair_idx, repairs, manifest, integration, fault, loopVars>>

\* the head of _parallel_execution: one ParallelTask per module
CreateTasks ==
    /\ pc = "tasks"
    /\ tasks' = [i \in 1..Len(architecture.modules) |-> NewTask]
    /\ pc' = "launch"
    /\ UNCHANGED <<componentVars, progress, agents, entry, coordVars, planner_response, todo_list, architecture, batch_idx, workers,
                   failed_modules, repair_idx, repairs, manifest, integration, result,
                   fault, loopVars>>

\* one pass of "for batch_idx, batch in enumerate(execution_order)" up to gather
LaunchBatch ==
    /\ pc = "launch"
    /\ batch_idx < Len(architecture.execution_order)
    /\ LET cs == Coroutines(architecture, batch_idx + 1)
       IN  /\ workers' = Append(workers, cs)
           /\ pc' = IF cs = <<>> THEN "launch" ELSE "gather"
           /\ progress' = UpdateProgress("parallel",
                              CompletedModules(architecture,
                                  IF cs = <<>> THEN batch_idx + 1 ELSE batch_idx),
                              Len(architecture.modules))
    /\ batch_idx' = batch_idx + 1
    /\ UNCHANGED <<componentVars, agents, entry, coordVars, planner_response, todo_list, architecture, tasks, failed_modules,
                   repair_idx, repairs, manifest, integration, result, fault, loopVars>>

NoAgentNoIssue(task) == [task EXCEPT !.status = "failed"]

\* the "if not agent:" branch at the head of _execute_module: the task is
\* FAILED and the issue is recorded; no agent is called
NoAgent(task) == [task EXCEPT !.status = "failed", !.issues = Append(@, "no_model")]

\* _execute_module up to its first await: the coroutines of a gather start in
\* the order they were handed over.
WorkerStart ==
    /\ pc = "gather"
    /\ \E k \in 1..Len(workers[batch_idx]) :
         LET w == workers[batch_idx][k]
         IN  /\ w.state = "created"
             /\ \A j \in 1..(k - 1) : workers[batch_idx][j].state # "created"
             /\ IF architecture.modules[w.task].role \notin agents
                THEN /\ tasks' = [tasks EXCEPT ![w.task] = NoAgent(@)]
                     /\ workers' = [workers EXCEPT ![batch_idx][k] =
                                      [w EXCEPT !.state = "done", !.exit = "returned",
                                                !.exit_status = "failed"]]
                     /\ todo_list' = UpdateTodoItem(todo_list,
                                         architecture.modules[w.task].name, "failed")
                ELSE /\ tasks' = [tasks EXCEPT ![w.task].status = "in_progress"]
                     /\ workers' = [workers EXCEPT ![batch_idx][k].state = "running"]
                     /\ todo_list' = UpdateTodoItem(todo_list,
                                         architecture.modules[w.task].name, "in_progress")
    /\ UNCHANGED <<componentVars, progress, agents, entry, coordVars, planner_response, architecture, batch_idx, failed_modules,
                   repair_idx, repairs, manifest, integration, pc, result, fault,
                   loopVars>>

\* the tool-use loop of _execute_module, to the coroutine's end
WorkerFinish ==
    /\ pc = "gather"
    /\ \E k \in 1..Len(workers[batch_idx]), s \in AgentScripts(entry) :
         LET w == workers[batch_idx][k]
             L == RunModule(NewLoop(tasks[w.task]), s, agents)
         IN  /\ w.state = "running"
             /\ tasks' = [tasks EXCEPT ![w.task] = TaskOf(L)]
             /\ workers' = [workers EXCEPT ![batch_idx][k] =
                              [w EXCEPT !.state = "done",
                                        !.exit = IF L.end = "raised" THEN "raised"
                                                 ELSE "returned",
                                        !.exit_status = L.status]]
             /\ todo_list' = IF L.end = "raised" THEN todo_list
                             ELSE UpdateTodoItem(todo_list,
                                      architecture.modules[w.task].name, L.status)
    /\ UNCHANGED <<componentVars, progress, agents, entry, coordVars, planner_response, architecture, batch_idx, failed_modules,
                   repair_idx, repairs, manifest, integration, pc, result, fault,
                   loopVars>>

\* await asyncio.gather(...) returns
GatherReturn ==
    /\ pc = "gather"
    /\ \A k \in 1..Len(workers[batch_idx]) : workers[batch_idx][k].state = "done"
    /\ IF GatherOutcome(workers[batch_idx]) = "raised"
       THEN pc' = "raised" /\ fault' = "worker"
       ELSE /\ pc' = "launch" /\ fault' = fault
    /\ progress' = IF GatherOutcome(workers[batch_idx]) = "raised" THEN progress
                    ELSE UpdateProgress("parallel",
                             CompletedModules(architecture, batch_idx),
                             Len(architecture.modules))
    /\ UNCHANGED <<componentVars, agents, entry, coordVars, planner_response, architecture,
                   todo_list, tasks, batch_idx, workers, failed_modules, repair_idx, repairs,
                   manifest, integration, result, loopVars>>

SomeBatchDone(arch, b) == b >= 1 \/ b = Len(arch.execution_order)

\* "for batch_idx, batch in enumerate(execution_order)" has run out of
\* batches: _parallel_execution returns and execute() goes on
AllBatchesDone(arch, b) == b = Len(arch.execution_order)

\* the batches are through; _integrate_modules picks its integrator and
\* collects failed_modules
IntegrateBegin ==
    /\ pc = "launch"
    /\ AllBatchesDone(architecture, batch_idx)
    /\ progress' = IF agents = {} THEN UpdateProgress("done", 3, 3)
                    ELSE UpdateProgress("integration", 2, 3)
    /\ IF agents = {}
       THEN /\ pc' = "returned"
            /\ result' = Returned("parallel", "no_integrator")
            /\ UNCHANGED <<failed_modules, repair_idx>>
       ELSE /\ pc' = "repair"
            /\ failed_modules' = FailedModules(tasks)
            /\ repair_idx' = 1
            /\ result' = result
    /\ UNCHANGED <<componentVars, agents, entry, coordVars, planner_response, todo_list, architecture, tasks, batch_idx, workers,
                   repairs, manifest, integration, fault, loopVars>>

\* one pass of "for task, module in failed_modules": _repair_module
RepairModule ==
    /\ pc = "repair"
    /\ repair_idx <= Len(failed_modules)
    /\ LET m == failed_modules[repair_idx]
           t == FindModuleIndex(architecture.modules, architecture.modules[m].name)
       IN  IF RepairAgent(agents) = "none"
           THEN /\ repairs' = Append(repairs, [module |-> m, task |-> t, ran |-> FALSE,
                                               end |-> "no_model"])
                /\ tasks' = tasks
           ELSE \E s \in AgentScripts(entry) :
                  LET L == RunRepair(NewLoop(tasks[t]), s)
                  IN  /\ repairs' = Append(repairs, [module |-> m, task |-> t,
                                                     ran |-> TRUE, end |-> L.end])
                      /\ tasks' = [tasks EXCEPT ![t] = TaskOf(L)]
    /\ repair_idx' = repair_idx + 1
    /\ UNCHANGED <<componentVars, progress, agents, entry, coordVars, planner_response, todo_list, architecture, batch_idx, workers,
                   failed_modules, manifest, integration, pc, result, fault, loopVars>>

\* module_outputs is built from every task
BuildManifest ==
    /\ pc = "repair"
    /\ repair_idx > Len(failed_modules)
    /\ manifest' = Manifest(architecture, tasks)
    /\ pc' = "integration"
    /\ UNCHANGED <<componentVars, progress, agents, entry, coordVars, planner_response, todo_list, architecture, tasks, batch_idx, workers,
                   failed_modules, repair_idx, repairs, integration, result, fault,
                   loopVars>>

\* the integration tool-use loop
IntegrationLoop ==
    /\ pc = "integration"
    /\ \E s \in AgentScripts(entry) :
         LET L == RunIntegration(NewLoop(NewTask), s)
         IN  /\ L.end = "done"
             /\ integration' = [integration EXCEPT !.ran = TRUE]
    /\ pc' = "summary"
    /\ UNCHANGED <<componentVars, progress, agents, entry, coordVars, planner_response, todo_list, architecture, tasks, batch_idx, workers,
                   failed_modules, repair_idx, repairs, manifest, result, fault,
                   loopVars>>

\* the summary call, and execute() returns
Summary ==
    /\ pc = "summary"
    /\ \E o \in SummaryOutcomes(entry) :
         result' = Returned("parallel", o)
    /\ integration' = [integration EXCEPT !.summary_calls = @ + 1]
    /\ progress' = UpdateProgress("done", 3, 3)
    /\ pc' = "returned"
    /\ UNCHANGED <<componentVars, agents, entry, coordVars, planner_response, todo_list, architecture, tasks, batch_idx, workers,
                   failed_modules, repair_idx, repairs, manifest, fault, loopVars>>

Next ==
    \/ Analyze
    \/ Dispatch
    \/ QuickResponse
    \/ SeqCreatePlan
    \/ SeqExecutePlan
    \/ Design
    \/ CreateTasks
    \/ LaunchBatch
    \/ WorkerStart
    \/ WorkerFinish
    \/ GatherReturn
    \/ IntegrateBegin
    \/ RepairModule
    \/ BuildManifest
    \/ IntegrationLoop
    \/ Summary

Spec == Init /\ [][Next]_vars

(***************************************************************************)
(* The loops run turn by turn against a scripted agent.                    *)
(***************************************************************************)
LoopKinds == {"module", "repair", "integration", "quick"}

\* The status a loop finds on its task: a module loop has just set
\* IN_PROGRESS, a repair loop is handed any task that is not COMPLETED.
EntryStatus(kind) ==
    CASE kind = "module" -> {"in_progress"}
      [] kind = "repair" -> {"pending", "in_progress", "failed"}
      [] OTHER -> {"pending"}

InitLoop ==
    /\ agents \in AgentConfigs \ {{}}
    /\ loop_kind \in LoopKinds
    /\ script \in Scripts
    /\ \E st \in EntryStatus(loop_kind) : loop = NewLoop([NewTask EXCEPT !.status = st])
    /\ entry = "loop"
    /\ pc = "loop"
    /\ force_mode = "none"
    /\ response = NoReply
    /\ routing = NoRouting
    /\ workflow = <<>>
    /\ is_timeout = FALSE
    /\ EngineIdle
    /\ result = NoResult
    /\ fault = ""
    /\ ComponentsIdle

ModuleTurn ==
    /\ loop_kind = "module" /\ loop.end = "running"
    /\ loop' = ModuleIteration(loop, TurnAt(script, loop.i + 1), agents)
    /\ UNCHANGED <<componentVars, agents, sessionVars, coordVars, engineVars, loop_kind, script>>

RepairTurn ==
    /\ loop_kind = "repair" /\ loop.end = "running"
    /\ loop' = RepairIteration(loop, TurnAt(script, loop.i + 1))
    /\ UNCHANGED <<componentVars, agents, sessionVars, coordVars, engineVars, loop_kind, script>>

IntegrationTurn ==
    /\ loop_kind = "integration" /\ loop.end = "running"
    /\ loop' = IntegrationIteration(loop, TurnAt(script, loop.i + 1))
    /\ UNCHANGED <<componentVars, agents, sessionVars, coordVars, engineVars, loop_kind, script>>

QuickTurn ==
    /\ loop_kind = "quick" /\ loop.end = "running"
    /\ loop' = QuickIteration(loop, TurnAt(script, loop.i + 1))
    /\ UNCHANGED <<componentVars, agents, sessionVars, coordVars, engineVars, loop_kind, script>>

NextLoop == ModuleTurn \/ RepairTurn \/ IntegrationTurn \/ QuickTurn

SpecLoop == InitLoop /\ [][NextLoop]_vars

(***************************************************************************)
(* Properties.                                                             *)
(***************************************************************************)
Terminal == {"completed", "failed"}

KnownName(n) == FindModuleIndex(architecture.modules, n) # 0

\* the repair pass is over and module_outputs has been built
ManifestBuilt == manifest # <<>>

LastTurn == TurnAt(script, loop.i)

AllTools(s) ==
    /\ s.tail.kind = "tools"
    /\ \A n \in 1..Len(s.head) : s.head[n].kind = "tools"

Count(seq, S) == Cardinality({n \in 1..Len(seq) : seq[n] \in S})

\* C1: once a batch has been launched, every worker of every earlier batch
\* has ended with its task's status Completed or Failed.
C1_BatchBarrier ==
    \A b \in 1..(Len(workers) - 1) :
        \A k \in 1..Len(workers[b]) : workers[b][k].exit_status \in Terminal

\* C2: no worker's failure or raise leaves the batch loop; the batches
\* launched so far are the first batch_idx batches of execution_order, each
\* launched once and in list order, and the engine reaches integration only
\* after the last one.
C2_BarrierUnconditional ==
    /\ fault # "worker"
    /\ Len(workers) = batch_idx
    /\ batch_idx <= Len(architecture.execution_order)
    /\ \A b \in 1..Len(workers) :
          /\ [k \in 1..Len(workers[b]) |-> workers[b][k].name]
                = SelectSeq(architecture.execution_order[b], KnownName)
          /\ \A k \in 1..Len(workers[b]) : workers[b][k].batch = b
          /\ b < Len(workers) => \A k \in 1..Len(workers[b]) : workers[b][k].state = "done"
    /\ pc \in {"repair", "integration", "summary"}
          => batch_idx = Len(architecture.execution_order)
    /\ (pc = "returned" /\ tasks # <<>>) => batch_idx = Len(architecture.execution_order)

C2_Witness ==
    /\ pc = "returned"
    /\ Len(workers) = 2
    /\ \E k \in 1..Len(workers[1]) : workers[1][k].exit = "raised"
    /\ \E k \in 1..Len(workers[1]) : workers[1][k].exit_status = "failed"
    /\ workers[2] # <<>>
    /\ \A k \in 1..Len(workers[2]) : workers[2][k].state = "done"

RepairRuns(m) == Cardinality({j \in 1..Len(repairs) : repairs[j].ran /\ repairs[j].task = m})

\* C3: when the repair pass is over, the repair loop has run exactly once on
\* the task of every module that was not Completed after the batches, and not
\* at all on the task of a module that was.
C3_RepairExactlyOnce ==
    ManifestBuilt =>
        \A m \in 1..Len(tasks) :
            RepairRuns(m) = IF \E j \in 1..Len(failed_modules) : failed_modules[j] = m
                            THEN 1 ELSE 0

\* C4: every status the integration manifest lists is Completed or Failed.
C4_TerminalAfterRepair ==
    \A i \in 1..Len(manifest) : manifest[i].status \in Terminal

\* C5: a module loop whose first response has no tool calls and no
\* "[REQUEST_HELP" ends Completed after one agent call and no tool execution.
C5_PlainFirstResponseCompletes ==
    (loop_kind = "module" /\ loop.i >= 1 /\ TurnAt(script, 1).kind \in {"text", "empty", "error"})
        => /\ loop.end = "completed"
           /\ loop.status = "completed"
           /\ loop.agent_calls = 1
           /\ loop.tool_execs = 0

\* C6: a module loop whose every response carries tool calls makes one agent
\* call per iteration, stops after exactly ModuleMaxIterations (15) of them,
\* and ends Failed with the max-iterations issue appended.
C6_BudgetExhausted ==
    (loop_kind = "module" /\ AllTools(script))
        => /\ loop.agent_calls = loop.i
           /\ \/ /\ loop.end = "running"
                 /\ loop.i < ModuleMaxIterations
                 /\ loop.status = "in_progress"
                 /\ loop.issues = <<>>
              \/ /\ loop.end = "failed"
                 /\ loop.agent_calls = ModuleMaxIterations
                 /\ loop.status = "failed"
                 /\ loop.issues = <<"max_iterations">>

C6_Witness ==
    /\ loop_kind = "module"
    /\ AllTools(script)
    /\ loop.end = "failed"
    /\ loop.agent_calls = 15
    /\ loop.issues = <<"max_iterations">>

\* C7: once a repair has left a module Failed, the engine does not raise: the
\* manifest lists every module with the status of its task, the integration
\* loop runs before the summary call, and execute() returns with one summary
\* call made.
C7_FailedModuleDoesNotAbort ==
    (\E j \in 1..Len(repairs) : tasks[repairs[j].task].status = "failed")
        => /\ pc # "raised"
           /\ pc \in {"repair", "integration", "summary", "returned"}
           /\ pc # "repair" =>
                 /\ Len(manifest) = Len(tasks)
                 /\ \A i \in 1..Len(tasks) :
                       manifest[i] = [module |-> i, status |-> tasks[i].status]
           /\ pc \in {"summary", "returned"} => integration.ran
           /\ pc = "returned" =>
                 /\ integration.summary_calls = 1
                 /\ result.from = "parallel"
                 /\ result.value \in {"text", "blank", "error"}

C7_Witness ==
    /\ pc = "returned"
    /\ \E j \in 1..Len(repairs) :
          /\ repairs[j].ran
          /\ tasks[repairs[j].task].status = "failed"
          /\ manifest[repairs[j].task].status = "failed"
    /\ integration.ran
    /\ integration.summary_calls = 1

LoopCap ==
    CASE loop_kind = "module" -> ModuleMaxIterations
      [] loop_kind = "repair" -> RepairMaxIterations
      [] loop_kind = "integration" -> IntegrateMaxIterations
      [] OTHER -> QuickMaxIterations

\* C8: in the module, repair and integration loops, an iteration whose tool
\* calls raise or report failure appends one tool-error message per such call,
\* does not raise, and leaves the loop running unless the budget is spent.
C8_ToolErrorsFedBack ==
    (loop_kind \in {"module", "repair", "integration"} /\ loop.i >= 1
       /\ LastTurn.kind = "tools")
        => /\ loop.end # "raised"
           /\ Count(loop.appended, {"tool_error", "tool_exception"})
                 = Count(LastTurn.calls, {"fail", "raise"})
           /\ Count(loop.appended, {"tool_exception"}) = Count(LastTurn.calls, {"raise"})
           /\ loop.end = "running" \/ loop.i = LoopCap

C8_Witness ==
    /\ loop_kind \in {"module", "repair", "integration"}
    /\ loop.i = 2
    /\ TurnAt(script, 1).kind = "tools"
    /\ TurnAt(script, 1).calls = <<"raise">>
    /\ LastTurn.kind = "tools"
    /\ LastTurn.calls = <<"fail">>
    /\ loop.appended = <<"assistant_tool_calls", "tool_error">>
    /\ Count(loop.messages, {"tool_exception"}) = 1
    /\ loop.end = "running"

\* C9: collaborate() never raises because an agent call raised or timed out.
C9_AgentFailureNeverRaises == ~(pc = "raised" /\ fault = "agent_call")

Malformed(r) == r.kind \in {"none", "blank", "prose", "error", "broken_json"}

\* C10: _analyze_request never raises, and with no agent configured or a
\* classifier answer that is empty or holds no parseable JSON object it
\* returns complexity simple, domain coding, intent new.
C10_ClassifierFallback ==
    /\ fault # "analyze_request"
    /\ ~routing.raised
    /\ (pc = "dispatch" /\ (FastAgent(agents) = "none" \/ Malformed(response)))
          => /\ routing.complexity = "simple"
             /\ routing.domain = "coding"
             /\ routing.intent = "new"

C10_Witness ==
    /\ pc = "dispatch"
    /\ agents # {}
    /\ response.kind \in {"none", "broken_json"}
    /\ routing.complexity = "simple"
    /\ routing.domain = "coding"
    /\ routing.intent = "new"

\* C11: with no force mode, collaborate() starts exactly one workflow, and it
\* is the quick response for complexity simple, the sequential strategy for
\* complexity complex with intent modify, the parallel strategy for complexity
\* complex with intent new.
C11_OneWorkflowByClassification ==
    /\ Len(workflow) <= 1
    /\ (entry = "collaborate" /\ force_mode = "none") =>
          /\ pc \in {"routing", "dispatch"} => workflow = <<>>
          /\ pc \notin {"routing", "dispatch", "raised"} => Len(workflow) = 1
          /\ workflow # <<>> =>
                /\ routing.complexity = "simple" => workflow = <<"quick">>
                /\ (routing.complexity = "complex" /\ routing.intent = "modify")
                      => workflow = <<"sequential">>
                /\ (routing.complexity = "complex" /\ routing.intent = "new")
                      => workflow = <<"parallel">>
                /\ workflow[1] = "quick" => pc \in {"quick", "returned", "raised"}
                /\ workflow[1] = "sequential"
                      => pc \in {"seq_plan", "seq_exec", "returned", "raised"}
                /\ workflow[1] = "parallel"
                      => pc \notin {"quick", "seq_plan", "seq_exec"}

C11_Witness ==
    /\ entry = "collaborate"
    /\ force_mode = "none"
    /\ routing.complexity = "complex"
    /\ routing.intent = "modify"
    /\ workflow = <<"sequential">>
    /\ pc = "returned"

\* C12: with a force mode set, no classifier agent call is made for the
\* request: when collaborate() reaches its if-chain the classifier has not
\* been asked.
C12_ForceModeBypassesClassifier ==
    (entry = "collaborate" /\ force_mode # "none" /\ pc = "dispatch")
        => response.kind = "not_called"

ParseFailed == planner_response \in {"error", "malformed"}

\* C13: whenever the planner's response could not be parsed, the plan in
\* force is the hard-coded default plan: modules core, ui and integration in
\* the two batches [core, ui] and [integration].
C13_ParseFailureGivesDefaultPlan ==
    ParseFailed => architecture = DefaultArchitecture

ItemsOf(todo, name) == {j \in 1..Len(todo) : todo[j].id = name}

\* C14: once a plan is in force (parsed, fallback or default) and before any
\* worker is launched, the checklist holds exactly one item per module of the
\* plan, item i carrying the name of module i.
C14_ChecklistPerModule ==
    pc \in {"tasks", "launch"} /\ workers = <<>> =>
        /\ Len(todo_list) = Len(architecture.modules)
        /\ \A i \in 1..Len(todo_list) : todo_list[i].id = architecture.modules[i].name

\* C15: for a parsed plan every module name has exactly one checklist item of
\* that identity; updating the name to Completed leaves exactly one item of
\* that identity Completed, changes no other item, and a second update
\* changes nothing.
C15_OneItemPerName ==
    planner_response = "json" =>
        \A i \in 1..Len(architecture.modules) :
            LET name == architecture.modules[i].name
                once == UpdateTodoItem(todo_list, name, "completed")
            IN  /\ Cardinality(ItemsOf(todo_list, name)) = 1
                /\ Cardinality({j \in ItemsOf(once, name) : once[j].status = "completed"}) = 1
                /\ \A j \in 1..Len(once) : j \notin ItemsOf(once, name) => once[j] = todo_list[j]
                /\ UpdateTodoItem(once, name, "completed") = once

DistinctNames(ms) == \A i, j \in 1..Len(ms) : ms[i].name = ms[j].name => i = j

\* C16: when execute() returns after running a parsed plan of distinct module
\* names, each module's checklist item shows the status of its RuntimeTask,
\* whether the worker or the repair pass set it last.
C16_ChecklistLockstep ==
    (pc = "returned" /\ planner_response = "json" /\ tasks # <<>>
     /\ DistinctNames(architecture.modules)) =>
        \A i \in 1..Len(tasks) :
            \E j \in ItemsOf(todo_list, architecture.modules[i].name) :
                todo_list[j].status = TodoStatus(tasks[i].status)

(***************************************************************************)
(* ResultAggregator.aggregate.  A string is the sequence of its pieces, so *)
(* that joining, labelling and containment are computed, not assumed.      *)
(***************************************************************************)
MaxResults == 2

\* self.role_order
role_order == <<"opus", "sonnet", "pro", "fast">>

\* get_role_definition(role).name
RoleName(role) ==
    CASE role = "fast" -> "Fast"
      [] role = "pro" -> "Pro"
      [] role = "sonnet" -> "Sonnet"
      [] role = "opus" -> "Opus"

\* get_role_definition(role).description, in English
RoleDescription(role) ==
    CASE role = "fast" -> "quick replies, classification"
      [] role = "pro" -> "planning and core code"
      [] role = "sonnet" -> "deep reasoning"
      [] role = "opus" -> "tool calls and local operations"

Whitespace == {" ", "\t"}

\* contents a result may carry: empty, whitespace only, or one of two texts
ContentValues == {"", " ", "\t", "X", "Y"}

\* ModelResult.error: None ("none") or a message
ErrorValues == {"none", "e1"}

ModelResult(role, success, content, error) ==
    [role |-> role, success |-> success, content |-> content, error |-> error]

ModelResults ==
    {ModelResult(r, s, c, e) : r \in ModelRole, s \in BOOLEAN, c \in ContentValues,
                               e \in ErrorValues}

\* a str as its pieces
Text(c) == IF c = "" THEN <<>> ELSE <<c>>

\* str.strip()
Strip(c) == IF c \in Whitespace THEN "" ELSE c

\* "\n".join(parts)
RECURSIVE Join(_)
Join(parts) ==
    IF parts = <<>> THEN <<>>
    ELSE IF Len(parts) = 1 THEN parts[1]
    ELSE parts[1] \o <<"\n">> \o Join(Tail(parts))

\* the two fixed messages of aggregate, in English
NoResultsMessage == "no results available"
AllFailedMessage == "all models failed"

\* "if r.error"
HasError(r) == r.error # "none" /\ r.error # ""

\* f"{get_role_definition(r.role).name}: {r.error}"
ErrorLine(r) == <<RoleName(r.role), ": ">> \o Text(r.error)

IsSuccess(r) == r.success

\* a mutant of Errors: only the first failed result is reported
ErrorsOfFirst(rs) ==
    LET failed == SelectSeq(rs, HasError)
    IN  IF failed = <<>> THEN <<>> ELSE <<ErrorLine(failed[1])>>

\* errors = [... for r in results if r.error]
Errors(rs) ==
    LET failed == SelectSeq(rs, HasError)
    IN  [i \in 1..Len(failed) |-> ErrorLine(failed[i])]

\* role_results = {r.role: r for r in results}: the last result of a role
InRoleResults(rs, role) == \E i \in 1..Len(rs) : rs[i].role = role

RoleResult(rs, role) ==
    LET last == CHOOSE i \in 1..Len(rs) :
                    rs[i].role = role /\ \A j \in (i + 1)..Len(rs) : rs[j].role # role
    IN  rs[last]

\* f"\n### {role_def.name} ({role_def.description})\n"
SectionHeader(role) == <<"\n### ", RoleName(role), " (", RoleDescription(role), ")\n">>

\* "for role in self.role_order" from position k on
RECURSIVE SectionParts(_, _)
SectionParts(rs, k) ==
    IF k > Len(role_order) THEN <<>>
    ELSE LET role == role_order[k]
             rest == SectionParts(rs, k + 1)
         IN  IF InRoleResults(rs, role) /\ RoleResult(rs, role).success
                /\ RoleResult(rs, role).content # ""
                /\ Strip(RoleResult(rs, role).content) # ""
             THEN <<SectionHeader(role), Text(RoleResult(rs, role).content)>> \o rest
             ELSE rest

HasContent(r) == r.content # ""

\* content_parts = [r.content for r in successful_results if r.content]
PlainParts(rs) ==
    LET kept == SelectSeq(SelectSeq(rs, IsSuccess), HasContent)
    IN  [i \in 1..Len(kept) |-> Text(kept[i].content)]

AggregatedResult(success, content) ==
    [success |-> success, content |-> content, called |-> TRUE]

Aggregate(rs) ==
    IF rs = <<>> THEN AggregatedResult(FALSE, Text(NoResultsMessage))
    ELSE IF SelectSeq(rs, IsSuccess) = <<>>
    THEN AggregatedResult(FALSE, IF Errors(rs) # <<>> THEN Join(Errors(rs))
                                 ELSE Text(AllFailedMessage))
    ELSE LET content_parts == SectionParts(rs, 1)
         IN  AggregatedResult(TRUE, Join(IF content_parts = <<>> THEN PlainParts(rs)
                                         ELSE content_parts))

SessionIdle ==
    /\ agents = {}
    /\ force_mode = "none"
    /\ response = NoReply
    /\ routing = NoRouting
    /\ workflow = <<>>
    /\ is_timeout = FALSE
    /\ EngineIdle
    /\ result = NoResult
    /\ fault = ""
    /\ loop_kind = "none"
    /\ script = IdleScript
    /\ loop = NewLoop(NewTask)

InitAggregate ==
    /\ results \in SeqUpTo(ModelResults, MaxResults)
    /\ aggregated = NoAggregated
    /\ entry = "aggregate"
    /\ pc = "aggregate"
    /\ SessionIdle
    /\ message_queue = <<>>
    /\ pending_requests = {}
    /\ bus_log = NoBusLog
    /\ DispatcherIdle
    /\ OrchestratorIdle

\* return self.aggregator.aggregate(results)
AggregateCall ==
    /\ pc = "aggregate"
    /\ aggregated' = Aggregate(results)
    /\ pc' = "returned"
    /\ UNCHANGED <<busVars, dispatcherVars, orchestratorVars, results, agents, entry, result, fault, coordVars,
                   engineVars, loopVars>>

NextAggregate == AggregateCall

SpecAggregate == InitAggregate /\ [][NextAggregate]_vars

\* the pieces of sub appear in s, next to each other and in order
Contains(s, sub) ==
    \E i \in 0..(Len(s) - Len(sub)) : SubSeq(s, i + 1, i + Len(sub)) = sub

\* C17: aggregate([]) fails with the fixed no-results message; aggregate of a
\* non-empty list without a successful result fails, and its content holds
\* the line "<role label>: <error>" of every result that carries an error.
C17_FailureContent ==
    pc = "returned" /\ entry = "aggregate" =>
        /\ results = <<>> =>
              ~aggregated.success /\ aggregated.content = <<NoResultsMessage>>
        /\ (results # <<>> /\ \A i \in 1..Len(results) : ~results[i].success) =>
              /\ ~aggregated.success
              /\ \A i \in 1..Len(results) :
                    HasError(results[i]) =>
                        Contains(aggregated.content,
                                 <<RoleName(results[i].role), ": ", results[i].error>>)

C17_Witness ==
    /\ pc = "returned" /\ entry = "aggregate"
    /\ Len(results) = 2
    /\ \A i \in 1..2 : ~results[i].success /\ HasError(results[i])
    /\ results[1].role # results[2].role
    /\ ~aggregated.success

\* every ordering of the same list of results
Orderings(rs) ==
    {[i \in 1..Len(rs) |-> rs[p[i]]] : p \in Permutations(1..Len(rs))}

Succeeded(rs, role) ==
    \E i \in 1..Len(rs) : rs[i].role = role /\ rs[i].success /\ Strip(rs[i].content) # ""

Failed(rs, role) ==
    /\ \E i \in 1..Len(rs) : rs[i].role = role
    /\ \A i \in 1..Len(rs) : rs[i].role = role => ~rs[i].success

HeaderAt(s, role) ==
    CHOOSE i \in 0..Len(s) : SubSeq(s, i + 1, i + Len(SectionHeader(role))) = SectionHeader(role)

\* C18: when a result succeeded, aggregate succeeds; its content has the
\* section of every role that succeeded with non-blank content and of no
\* failed role, the sections follow the precedence order, and the content
\* is the same for every ordering of the input list.
C18_SectionsOrderIndependent ==
    (pc = "returned" /\ entry = "aggregate"
     /\ \E i \in 1..Len(results) : results[i].success) =>
        /\ aggregated.success
        /\ \A role \in ModelRole :
              /\ Succeeded(results, role) => Contains(aggregated.content, SectionHeader(role))
              /\ Failed(results, role) => ~Contains(aggregated.content, SectionHeader(role))
        /\ \A a, b \in 1..Len(role_order) :
              (/\ a < b
               /\ Contains(aggregated.content, SectionHeader(role_order[a]))
               /\ Contains(aggregated.content, SectionHeader(role_order[b]))) =>
                  HeaderAt(aggregated.content, role_order[a])
                      < HeaderAt(aggregated.content, role_order[b])
        /\ \A rs \in Orderings(results) : Aggregate(rs).content = aggregated.content

(***************************************************************************)
(* The message bus of CollaborationState.  pending_requests, a dict keyed  *)
(* by message id, is the set of its values; a ModelMessage gets a fresh id *)
(* when it is made (msg_<time_ns>).                                        *)
(***************************************************************************)
MaxMessages == 2
MaxReplies == 1

\* the last call made on the bus, with its arguments
Call(op, role, id) == [op |-> op, role |-> role, id |-> id]

\* to_role = None
NoAddressee == "none"

ModelMessage(id, to_role, requires_response) ==
    [id |-> id, to_role |-> to_role, requires_response |-> requires_response]

\* the messages a caller can make next
NewMessages ==
    {ModelMessage(bus_log.created + 1, t, q) :
        t \in ModelRole \cup {NoAddressee}, q \in BOOLEAN}

\* a mutant of BroadcastPending: every response-required message is indexed
BroadcastPendingAll(pending, m) ==
    IF m.requires_response THEN {x \in pending : x.id # m.id} \cup {m} ELSE pending

\* broadcast: "if message.requires_response and message.to_role"
BroadcastPending(pending, m) ==
    IF m.requires_response /\ m.to_role # NoAddressee
    THEN {x \in pending : x.id # m.id} \cup {m}
    ELSE pending

\* get_messages_for: "msg.to_role is None or msg.to_role == role"
Visible(m, role) == m.to_role = NoAddressee \/ m.to_role = role

\* get_messages_for: the messages it returns
Messages(queue, role) ==
    LET Mine(m) == Visible(m, role)
    IN  SelectSeq(queue, Mine)

\* get_messages_for: the queue it leaves behind
Remaining(queue, role) ==
    LET Stays(m) == IF Visible(m, role)
                    THEN ~m.requires_response \/ m.to_role # role
                    ELSE TRUE
    IN  SelectSeq(queue, Stays)

\* a mutant of RespondPending: the whole index is dropped
RespondClearsPending(pending, original_id) == {}

\* a mutant of RespondPending: the request stays indexed
RespondKeepsPending(pending, original_id) == pending

\* respond_to: "del self.pending_requests[original_id]" when it is there
RespondPending(pending, original_id) == {x \in pending : x.id # original_id}

SentIds == {bus_log.sent[k].id : k \in 1..Len(bus_log.sent)}

InitBus ==
    /\ ComponentsIdle
    /\ entry = "bus"
    /\ pc = "bus"
    /\ SessionIdle

\* broadcast(message)
Broadcast ==
    /\ pc = "bus"
    /\ Len(bus_log.sent) < MaxMessages
    /\ \E m \in NewMessages :
         /\ message_queue' = Append(message_queue, m)
         /\ pending_requests' = BroadcastPending(pending_requests, m)
         /\ bus_log' = [bus_log EXCEPT !.sent = Append(@, m), !.created = @ + 1,
                                       !.last = Call("broadcast", "", m.id)]
    /\ UNCHANGED <<aggregatorVars, dispatcherVars, orchestratorVars, agents, sessionVars, coordVars, engineVars,
                   loopVars>>

\* get_messages_for(role)
GetMessagesFor ==
    /\ pc = "bus"
    /\ \E role \in ModelRole :
         LET messages == Messages(message_queue, role)
         IN  /\ message_queue' = Remaining(message_queue, role)
             /\ bus_log' = [bus_log EXCEPT
                              !.last = Call("get_messages_for", role, 0),
                              !.polled = @ \cup {<<role, id>> : id \in SentIds},
                              !.delivered = @ \cup {<<role, messages[k].id>> :
                                                      k \in 1..Len(messages)}]
    /\ UNCHANGED <<pending_requests, aggregatorVars, dispatcherVars, orchestratorVars, agents, sessionVars,
                   coordVars, engineVars, loopVars>>

\* respond_to(original_id, response)
RespondTo ==
    /\ pc = "bus"
    /\ bus_log.replies < MaxReplies
    /\ \E original_id \in 1..(MaxMessages + MaxReplies), reply \in NewMessages :
         /\ pending_requests' = RespondPending(pending_requests, original_id)
         /\ message_queue' = Append(message_queue, reply)
         /\ bus_log' = [bus_log EXCEPT !.created = @ + 1, !.replies = @ + 1,
                                       !.last = Call("respond_to", "", original_id),
                                       !.responded = @ \cup ({original_id} \cap SentIds)]
    /\ UNCHANGED <<aggregatorVars, dispatcherVars, orchestratorVars, agents, sessionVars, coordVars, engineVars,
                   loopVars>>

NextBus == Broadcast \/ GetMessagesFor \/ RespondTo

SpecBus == InitBus /\ [][NextBus]_vars

Sent == {bus_log.sent[k] : k \in 1..Len(bus_log.sent)}

DirectedRequests == {m \in Sent : m.to_role # NoAddressee /\ m.requires_response}

Undirected == {m \in Sent : m.to_role = NoAddressee}

\* C19: a directed, response-required message that was broadcast is returned
\* by the addressee's first get_messages_for after it; it is in the pending
\* map, however often anyone polls, as long as respond_to has not been
\* called with its id, and it is not pending once that call was made.
C19_PendingUntilResponded ==
    \A m \in DirectedRequests :
        /\ <<m.to_role, m.id>> \in bus_log.polled => <<m.to_role, m.id>> \in bus_log.delivered
        /\ m.id \notin bus_log.responded => m \in pending_requests
        /\ m.id \in bus_log.responded => m \notin pending_requests

C19_Witness ==
    \E m \in DirectedRequests :
        /\ <<m.to_role, m.id>> \in bus_log.delivered
        /\ m.id \in bus_log.responded
        /\ m \notin pending_requests

\* C20: a broadcast message without addressee is returned to every role that
\* polls after it, in whatever order the roles poll, and is never in the
\* pending map, flagged requires_response or not.
C20_UndirectedReachesAll ==
    \A m \in Undirected :
        /\ m \notin pending_requests
        /\ \A role \in ModelRole :
              <<role, m.id>> \in bus_log.polled => <<role, m.id>> \in bus_log.delivered

C20_Witness ==
    \E m \in Undirected :
        /\ m.requires_response
        /\ \A role \in ModelRole : <<role, m.id>> \in bus_log.delivered
        /\ m \notin pending_requests

\* the queue get_messages_for(role) would leave if it removed what it returns
\* and kept only the returned directed messages that require a response
RemovedWhenReturned(queue, role) ==
    LET Stays(m) == ~Visible(m, role) \/ (m.to_role = role /\ m.requires_response)
    IN  SelectSeq(queue, Stays)

\* C21: a call of get_messages_for(role) takes every message it returns out
\* of the queue, except a directed message that requires a response; the
\* messages for other roles stay, in their order.
C21_ReturnedAreRemoved ==
    [][bus_log'.last.op = "get_messages_for" =>
          message_queue' = RemovedWhenReturned(message_queue, bus_log'.last.role)]_vars

\* C22: a call of respond_to(id, response) takes the entry of that id out of
\* the pending map and leaves every other entry; the queue afterwards is the
\* queue before with the response appended.
C22_RespondFrame ==
    [][bus_log'.last.op = "respond_to" =>
          /\ \A x \in pending_requests' : x.id # bus_log'.last.id
          /\ \A x \in pending_requests : x.id # bus_log'.last.id => x \in pending_requests'
          /\ pending_requests' \subseteq pending_requests
          /\ Len(message_queue') = Len(message_queue) + 1
          /\ SubSeq(message_queue', 1, Len(message_queue)) = message_queue
          /\ message_queue'[Len(message_queue')].id = bus_log'.created]_vars

C22_Witness ==
    /\ bus_log.last.op = "respond_to"
    /\ bus_log.last.id \in bus_log.responded
    /\ \E m \in DirectedRequests : m.id = bus_log.last.id /\ m \notin pending_requests
    /\ pending_requests # {}
    /\ Len(message_queue) > 1

\* C23: while a batch runs, no two of its workers that are running at the
\* same time were handed the same RuntimeTask.
C23_OneWriterPerTask ==
    pc = "gather" =>
        \A k1, k2 \in 1..Len(workers[batch_idx]) :
            (/\ k1 # k2
             /\ workers[batch_idx][k1].state = "running"
             /\ workers[batch_idx][k2].state = "running") =>
                workers[batch_idx][k1].task # workers[batch_idx][k2].task

\* the turn a module loop is taking in this step
ModuleStep == loop_kind = "module" /\ loop'.i = loop.i + 1

TurnTaken == TurnAt(script, loop'.i)

\* C24: a module response without tool calls whose marker names a configured
\* role costs exactly one side-call next to the module's own call, appends
\* the advice after the response in the same history, and does not complete
\* the module on that turn.
C24_EscalationContinues ==
    [][(ModuleStep /\ TurnTaken.kind = "help" /\ TurnTaken.target \in agents) =>
          /\ loop'.agent_calls = loop.agent_calls + 2
          /\ loop'.messages = loop.messages \o <<"assistant_marker", "user_help">>
          /\ loop'.status # "completed"
          /\ loop'.end # "completed"]_vars

NoEscalation(turn) ==
    \/ turn.kind \in {"text", "empty", "error"}
    \/ turn.kind = "help" /\ turn.target \notin ModelRole

\* C25: a module response without tool calls, whose marker is absent, does
\* not parse or names none of the four roles, costs no side-call, raises
\* nothing and completes the module on that turn.
C25_NoMarkerCompletes ==
    [][(ModuleStep /\ NoEscalation(TurnTaken)) =>
          /\ loop'.agent_calls = loop.agent_calls + 1
          /\ loop'.end = "completed"
          /\ loop'.status = "completed"]_vars

(***************************************************************************)
(* TaskDispatcher.analyze.  A request is its length and the number of      *)
(* patterns of each tag that match it; a task text is the sequence of its  *)
(* pieces.                                                                 *)
(***************************************************************************)
MaxScore == 2

\* len(text) on both sides of the "< 100" of _determine_task_type
TextLengths == {0, 99, 100}

\* sum(scores.values())
RECURSIVE SumOver(_, _)
SumOver(sc, T) ==
    IF T = {} THEN 0
    ELSE LET t == CHOOSE x \in T : TRUE IN sc[t] + SumOver(sc, T \ {t})

TotalScore(sc) == SumOver(sc, Tags)

\* any(scores.values())
AnyScore(sc) == \E t \in Tags : sc[t] > 0

\* a mutant of DetermineTaskType: the length of the text is not looked at
DetermineTaskTypeAnyLength(sc, len) ==
    IF TotalScore(sc) <= 1 THEN "simple"
    ELSE IF sc["code_generation"] > 0 /\ sc["architecture"] > 0 THEN "multi_stage"
    ELSE IF TotalScore(sc) >= 3 THEN "complex"
    ELSE IF AnyScore(sc) THEN "complex"
    ELSE "simple"

\* _determine_task_type
DetermineTaskType(sc, len) ==
    IF TotalScore(sc) <= 1 /\ len < 100 THEN "simple"
    ELSE IF sc["code_generation"] > 0 /\ sc["architecture"] > 0 THEN "multi_stage"
    ELSE IF TotalScore(sc) >= 3 THEN "complex"
    ELSE IF AnyScore(sc) THEN "complex"
    ELSE "simple"

SubTask(role, task, priority) ==
    [role |-> role, task |-> task, priority |-> priority, dependencies |-> <<>>]

\* f"<what to do>: {user_input}"
Prefixed(prefix) == <<prefix, ": ", "user_input">>

\* the SubTask of "if not subtasks": PRO, the request itself, priority 5
GenericSubTask == SubTask("pro", <<"user_input">>, 5)

\* list.sort(key=priority, reverse=True): stable, greatest first
RECURSIVE InsertByPriority(_, _)
InsertByPriority(sorted, st) ==
    IF sorted = <<>> THEN <<st>>
    ELSE IF Head(sorted).priority >= st.priority
    THEN <<Head(sorted)>> \o InsertByPriority(Tail(sorted), st)
    ELSE <<st>> \o sorted

RECURSIVE SortByPriority(_)
SortByPriority(sts) ==
    IF sts = <<>> THEN <<>>
    ELSE InsertByPriority(SortByPriority(SubSeq(sts, 1, Len(sts) - 1)), sts[Len(sts)])

HasRole(sts, role) == \E i \in 1..Len(sts) : sts[i].role = role

\* the five ifs of _create_subtasks, before the default and the sort
TagSubTasks(sc) ==
    LET s1 == IF sc["file_operation"] > 0
              THEN <<SubTask("opus", Prefixed("file operation"), 10)>> ELSE <<>>
        s2 == IF sc["bug_fix"] > 0
              THEN Append(s1, SubTask("sonnet", Prefixed("diagnose and fix"), 8)) ELSE s1
        s3 == IF sc["algorithm"] > 0
              THEN Append(s2, SubTask("sonnet", Prefixed("algorithm"), 7)) ELSE s2
        s4 == IF sc["code_generation"] > 0 \/ sc["architecture"] > 0
              THEN Append(s3, SubTask("pro", Prefixed("design and implement"), 5)) ELSE s3
    IN  IF sc["chinese_context"] > 0 /\ ~HasRole(s4, "opus")
        THEN Append(s4, SubTask("opus", Prefixed("document"), 3)) ELSE s4

\* a mutant of CreateSubtasks: no default SubTask
CreateSubtasksNoDefault(sc) == SortByPriority(TagSubTasks(sc))

\* _create_subtasks
CreateSubtasks(sc) ==
    SortByPriority(IF TagSubTasks(sc) = <<>> THEN <<GenericSubTask>> ELSE TagSubTasks(sc))

TaskAnalysis(task_type, subtasks) == [task_type |-> task_type, subtasks |-> subtasks]

\* analyze
AnalyzeInput(sc, len) ==
    LET task_type == DetermineTaskType(sc, len)
    IN  IF task_type = "simple" THEN TaskAnalysis(task_type, <<>>)
        ELSE TaskAnalysis(task_type, CreateSubtasks(sc))

\* a pattern needs text to match
InitAnalyze ==
    /\ text_length \in TextLengths
    /\ scores \in [Tags -> 0..MaxScore]
    /\ text_length = 0 => ~AnyScore(scores)
    /\ analysis = NoAnalysis
    /\ entry = "analyze"
    /\ pc = "analyze"
    /\ SessionIdle
    /\ message_queue = <<>>
    /\ pending_requests = {}
    /\ bus_log = NoBusLog
    /\ results = <<>>
    /\ aggregated = NoAggregated
    /\ OrchestratorIdle

\* analysis = self.dispatcher.analyze(user_input)
AnalyzeCall ==
    /\ pc = "analyze"
    /\ analysis' = AnalyzeInput(scores, text_length)
    /\ pc' = "returned"
    /\ UNCHANGED <<busVars, aggregatorVars, orchestratorVars, text_length, scores, agents,
                   entry, result, fault, coordVars, engineVars, loopVars>>

NextAnalyze == AnalyzeCall

SpecAnalyze == InitAnalyze /\ [][NextAnalyze]_vars

Analyzed == entry = "analyze" /\ pc = "returned"

\* C28: the task type follows the decision table read top to bottom: SIMPLE
\* when the total score is at most 1 and the text is shorter than 100;
\* otherwise MULTI_STAGE when code_generation and architecture both fired;
\* otherwise COMPLEX when the total is at least 3 or any tag fired;
\* otherwise SIMPLE.
C28_DecisionTable ==
    Analyzed =>
        LET total == TotalScore(scores)
            short == text_length < 100
            both == scores["code_generation"] > 0 /\ scores["architecture"] > 0
        IN  /\ (total <= 1 /\ short) => analysis.task_type = "simple"
            /\ (~(total <= 1 /\ short) /\ both) => analysis.task_type = "multi_stage"
            /\ (~(total <= 1 /\ short) /\ ~both /\ (total >= 3 \/ AnyScore(scores)))
                  => analysis.task_type = "complex"
            /\ (~(total <= 1 /\ short) /\ ~both /\ total < 3 /\ ~AnyScore(scores))
                  => analysis.task_type = "simple"

C28_Witness ==
    /\ Analyzed
    /\ scores["code_generation"] > 0 /\ scores["architecture"] > 0
    /\ TotalScore(scores) >= 3
    /\ analysis.task_type = "multi_stage"

ProducesSubTask(sc) ==
    \E t \in Tags \ {"simple_qa"} : sc[t] > 0

\* C29: a non-SIMPLE analysis has a non-empty SubTask list in non-increasing
\* priority, and the list is the single generic SubTask (PRO, the request
\* text itself) exactly when no tag produced a SubTask.
C29_SortedOrGeneric ==
    (Analyzed /\ analysis.task_type # "simple") =>
        /\ analysis.subtasks # <<>>
        /\ \A i, j \in 1..Len(analysis.subtasks) :
              i < j => analysis.subtasks[i].priority >= analysis.subtasks[j].priority
        /\ (analysis.subtasks = <<SubTask("pro", <<"user_input">>, 5)>>)
              <=> ~ProducesSubTask(scores)

C29_Witness ==
    /\ Analyzed
    /\ analysis.task_type = "complex"
    /\ ~ProducesSubTask(scores)
    /\ analysis.subtasks = <<GenericSubTask>>

\* C30: no role has more than one SubTask in the list of an analysis.
C30_OneSubTaskPerRole ==
    Analyzed =>
        \A i, j \in 1..Len(analysis.subtasks) :
            analysis.subtasks[i].role = analysis.subtasks[j].role => i = j

(***************************************************************************)
(* MultiModelOrchestrator._handle_complex_task, for any TaskAnalysis it is *)
(* handed: the fan-out over the SubTasks without dependencies, the         *)
(* SubTasks with dependencies one after the other, then aggregate.         *)
(***************************************************************************)
MaxSubTasks == 3

\* the roles the SubTasks of an analysis name, and the client sets
SubTaskRoles == {"pro", "sonnet"}

ClientConfigs == SUBSET SubTaskRoles

\* SubTask.dependencies: empty, or naming something
DependencyLists == {<<>>, <<"step">>}

SubTasks ==
    {[SubTask(r, <<"user_input">>, 5) EXCEPT !.dependencies = d] :
        r \in SubTaskRoles, d \in DependencyLists}

\* What becomes of one _execute_single_role call with a configured role:
\*   content : chat_stream answers; the ModelResult is a success
\*   caught  : something raises inside the try; a failed ModelResult
\*   escapes : something raises before the try; the coroutine raises
Outcomes ==
    {[kind |-> "content", content |-> c] : c \in {"X", "", "LONG"}}
    \cup {[kind |-> "caught", content |-> ""], [kind |-> "escapes", content |-> ""]}

\* "if subtask.dependencies": the positions in analysis.subtasks, in order
RECURSIVE Positions(_, _, _)
Positions(sts, k, dep) ==
    IF k > Len(sts) THEN <<>>
    ELSE IF (sts[k].dependencies # <<>>) = dep
    THEN <<k>> \o Positions(sts, k + 1, dep)
    ELSE Positions(sts, k + 1, dep)

IndependentTasks == Positions(analysis.subtasks, 1, FALSE)

DependentTasks == Positions(analysis.subtasks, 1, TRUE)

\* _execute_parallel: "for st in subtasks if st.role in self.clients"
Configured(k) == analysis.subtasks[k].role \in clients

FanoutTasks == SelectSeq(IndependentTasks, Configured)

Unavailable == "unavailable"

Raised == [exception |-> TRUE]

\* _execute_single_role: the ModelResult, or the exception that escapes
ExecuteSingleRole(role, o) ==
    IF role \notin clients THEN ModelResult(role, FALSE, "", Unavailable)
    ELSE CASE o.kind = "content" -> ModelResult(role, TRUE, o.content, "none")
           [] o.kind = "caught" -> ModelResult(role, FALSE, "", "e1")
           [] o.kind = "escapes" -> Raised

IsException(x) == x = Raised

\* _execute_parallel after the gather: an exception at position i becomes a
\* failed ModelResult of subtasks[i].role, subtasks being the list it was
\* handed, not the list it launched
ModelResultsOf(ws) ==
    [i \in 1..Len(ws) |->
        IF IsException(ws[i].outcome)
        THEN ModelResult(analysis.subtasks[IndependentTasks[i]].role, FALSE, "", "e1")
        ELSE ws[i].outcome]

\* asyncio.gather returns when every coroutine is through
AllDone(ws) == \A k \in 1..Len(ws) : ws[k].state = "done"

\* result.content[:500]
Truncate(c) == IF c = "LONG" THEN "LONG[:500]" ELSE c

IsUsable(r) == r.success /\ r.content # ""

ContextLine(r) == <<"[", RoleName(r.role), "]: ", Truncate(r.content)>>

\* a mutant of BuildContext: failed and empty results are passed on too
BuildContextOfAll(rs) == [i \in 1..Len(rs) |-> ContextLine(rs[i])]

\* _build_context
BuildContext(rs) ==
    LET usable == SelectSeq(rs, IsUsable)
    IN  [i \in 1..Len(usable) |-> ContextLine(usable[i])]

Event(ev, k, context, n) == [ev |-> ev, subtask |-> k, context |-> context, results |-> n]

InitDispatch ==
    /\ clients \in ClientConfigs
    /\ analysis \in {TaskAnalysis("complex", sts) : sts \in SeqUpTo(SubTasks, MaxSubTasks)}
    /\ fanout = <<>>
    /\ dependent_idx = 0
    /\ dependent_running = FALSE
    /\ dispatch_log = <<>>
    /\ results = <<>>
    /\ aggregated = NoAggregated
    /\ text_length = 0
    /\ scores = [t \in Tags |-> 0]
    /\ message_queue = <<>>
    /\ pending_requests = {}
    /\ bus_log = NoBusLog
    /\ entry = "dispatch"
    /\ pc = "fanout"
    /\ SessionIdle

\* _handle_complex_task up to the gather of _execute_parallel
FanOut ==
    /\ pc = "fanout"
    /\ fanout' = [i \in 1..Len(FanoutTasks) |->
                    [subtask |-> FanoutTasks[i], state |-> "created", outcome |-> <<>>]]
    /\ pc' = IF FanoutTasks = <<>> THEN "dependents" ELSE "gather"
    /\ UNCHANGED <<busVars, aggregatorVars, dispatcherVars, clients, dependent_idx,
                   dependent_running, dispatch_log, agents, entry, result, fault, coordVars,
                   engineVars, loopVars>>

\* a gathered coroutine runs to its first await; they start in list order
SubTaskStart ==
    /\ pc = "gather"
    /\ \E k \in 1..Len(fanout) :
         /\ fanout[k].state = "created"
         /\ \A j \in 1..(k - 1) : fanout[j].state # "created"
         /\ fanout' = [fanout EXCEPT ![k].state = "running"]
         /\ dispatch_log' = Append(dispatch_log,
                                   Event("start", fanout[k].subtask, <<>>, Len(results)))
    /\ UNCHANGED <<busVars, aggregatorVars, dispatcherVars, clients, dependent_idx,
                   dependent_running, agents, sessionVars, coordVars, engineVars, loopVars>>

\* a gathered coroutine ends, in any order
SubTaskFinish ==
    /\ pc = "gather"
    /\ \E k \in 1..Len(fanout), o \in Outcomes :
         /\ fanout[k].state = "running"
         /\ fanout' = [fanout EXCEPT ![k].state = "done",
                                     ![k].outcome = ExecuteSingleRole(
                                         analysis.subtasks[fanout[k].subtask].role, o)]
         /\ dispatch_log' = Append(dispatch_log,
                                   Event("finish", fanout[k].subtask, <<>>, Len(results)))
    /\ UNCHANGED <<busVars, aggregatorVars, dispatcherVars, clients, dependent_idx,
                   dependent_running, agents, sessionVars, coordVars, engineVars, loopVars>>

\* the gather returns; results.extend(parallel_results)
FanIn ==
    /\ pc = "gather"
    /\ AllDone(fanout)
    /\ results' = results \o ModelResultsOf(fanout)
    /\ pc' = "dependents"
    /\ UNCHANGED <<busVars, aggregated, dispatcherVars, orchestratorVars, agents, entry, result,
                   fault, coordVars, engineVars, loopVars>>

\* one pass of "for subtask in dependent_tasks" up to its await
DependentStart ==
    /\ pc = "dependents"
    /\ ~dependent_running
    /\ dependent_idx < Len(DependentTasks)
    /\ dependent_idx' = dependent_idx + 1
    /\ dependent_running' = TRUE
    /\ dispatch_log' = Append(dispatch_log,
                              Event("start", DependentTasks[dependent_idx + 1],
                                    BuildContext(results), Len(results)))
    /\ UNCHANGED <<busVars, aggregatorVars, dispatcherVars, clients, fanout, agents,
                   sessionVars, coordVars, engineVars, loopVars>>

\* the awaited _execute_subtask ends; results.append(result), or it raises
DependentFinish ==
    /\ pc = "dependents"
    /\ dependent_running
    /\ \E o \in Outcomes :
         LET k == DependentTasks[dependent_idx]
             r == ExecuteSingleRole(analysis.subtasks[k].role, o)
         IN  /\ dispatch_log' = Append(dispatch_log, Event("finish", k, <<>>, Len(results)))
             /\ IF IsException(r)
                THEN pc' = "raised" /\ fault' = "subtask" /\ results' = results
                ELSE pc' = pc /\ fault' = fault /\ results' = Append(results, r)
    /\ dependent_running' = FALSE
    /\ UNCHANGED <<busVars, aggregated, dispatcherVars, clients, fanout, dependent_idx, agents,
                   entry, result, coordVars, engineVars, loopVars>>

\* the for-loop is through: return self.aggregator.aggregate(results)
DependentsDone ==
    /\ pc = "dependents"
    /\ ~dependent_running
    /\ dependent_idx = Len(DependentTasks)
    /\ pc' = "aggregate"
    /\ UNCHANGED <<componentVars, agents, entry, result, fault, coordVars, engineVars,
                   loopVars>>

NextDispatch ==
    \/ FanOut
    \/ SubTaskStart
    \/ SubTaskFinish
    \/ FanIn
    \/ DependentStart
    \/ DependentFinish
    \/ DependentsDone
    \/ AggregateCall

SpecDispatch == InitDispatch /\ [][NextDispatch]_vars

SubTaskRole(k) == analysis.subtasks[k].role

\* the fan-out is over and no SubTask with dependencies has begun
FannedIn == entry = "dispatch" /\ pc = "dependents" /\ dependent_idx = 0

\* C26: after the fan-out, results holds exactly one RoleResult per SubTask
\* without dependencies, in their order and with the SubTask's own role, and
\* the result of a SubTask whose role is not configured is a failed one.
C26_OneResultPerSubTask ==
    FannedIn =>
        /\ Len(results) = Len(IndependentTasks)
        /\ \A i \in 1..Len(results) :
              /\ results[i].role = SubTaskRole(IndependentTasks[i])
              /\ SubTaskRole(IndependentTasks[i]) \notin clients => ~results[i].success

Independent(k) == analysis.subtasks[k].dependencies = <<>>

DependentStarts ==
    {p \in 1..Len(dispatch_log) :
        dispatch_log[p].ev = "start" /\ ~Independent(dispatch_log[p].subtask)}

EventsBefore(p, ev, k) ==
    {q \in 1..(p - 1) : dispatch_log[q].ev = ev /\ dispatch_log[q].subtask = k}

SequentialExecuted ==
    /\ workflow # <<>>
    /\ workflow[Len(workflow)] = "sequential"
    /\ pc \in {"returned", "raised"}
    /\ fault \notin {"plan_none", "agent_call"}

\* C31: whenever _execute_plan has run with an executor configured, its loop
\* ran and ended by one of its two conditions (the cap of 15 agent calls, or a
\* response holding a completion keyword), so that _execute_plan returned the
\* final response; it never ends any other way.
C31_SequentialLoopEnds ==
    (SequentialExecuted /\ SeqExecutor(agents) # "none") =>
        (pc = "returned" /\ result.from = "sequential")

(***************************************************************************)
(* A module whose role is not configured.                                  *)
(***************************************************************************)
\* self.agents.get(task.role) of the worker's task is None
Unconfigured(w) == architecture.modules[w.task].role \notin agents

HasIssue(task, issue) == \E n \in 1..Len(task.issues) : task.issues[n] = issue

\* every batch has been gathered and every listed module has had its repair
RepairPassDone ==
    /\ batch_idx = Len(architecture.execution_order)
    /\ repair_idx = Len(failed_modules) + 1
    /\ Len(repairs) = Len(failed_modules)

\* C32: a worker whose module's role is not configured never runs the
\* tool-use loop (it is never "running", so it makes no agent call); it
\* returns, leaving its module Failed with the issue recorded through the
\* batches; nothing is raised, and when execute() returns with an integrator
\* configured, every batch, the repair pass, the integration loop and the
\* summary call have taken place.
C32_UnconfiguredRoleContained ==
    \A b \in 1..Len(workers) : \A k \in 1..Len(workers[b]) :
        LET w == workers[b][k]
        IN  (w.state # "created" /\ Unconfigured(w)) =>
               /\ w.state = "done" /\ w.exit = "returned" /\ w.exit_status = "failed"
               /\ pc \in {"gather", "launch"} =>
                     (tasks[w.task].status = "failed" /\ HasIssue(tasks[w.task], "no_model"))
               /\ pc # "raised"
               /\ (pc = "returned" /\ agents # {}) =>
                     (RepairPassDone /\ integration.ran /\ integration.summary_calls = 1)

\* a session that returned after a batch in which one module had no agent and
\* its sibling completed, a later batch, a repair attempt for the failed
\* module, integration and summary
C32_Witness ==
    /\ pc = "returned"
    /\ integration.ran
    /\ Len(workers) = 2
    /\ workers[2] # <<>>
    /\ \E k, j \in 1..Len(workers[1]) :
          /\ Unconfigured(workers[1][k])
          /\ ~Unconfigured(workers[1][j])
          /\ workers[1][j].exit_status = "completed"
          /\ \E n \in 1..Len(repairs) : repairs[n].task = workers[1][k].task

(***************************************************************************)
(* The session's wall-clock budget.                                        *)
(***************************************************************************)
\* the planner call of _design_architecture has been made
PlannerCalled == planner_response # "not_called"

\* C33: when the budget is already exceeded as the routing phase ends, no
\* planning call is started afterwards: the planner of the parallel workflow
\* is not called, and the sequential planner is not called either (so the
\* session cannot end in one of that call's failures).
C33_BudgetShortCircuitsPlanning ==
    (entry = "collaborate" /\ is_timeout) =>
        (~PlannerCalled /\ fault \notin {"plan_none", "agent_call"})

(***************************************************************************)
(* The progress counter.                                                   *)
(***************************************************************************)
\* C40: after every batch of _parallel_execution the reported current is at
\* most the reported total.
C40_ProgressWithinTotal ==
    (pc = "launch" /\ batch_idx > 0) =>
        (progress.phase = "parallel" /\ progress.current <= progress.total)

(***************************************************************************)
(* The order of the phases of ParallelCollaborator.execute.                *)
(***************************************************************************)
EveryWorkerDone ==
    \A b \in 1..Len(workers) : \A k \in 1..Len(workers[b]) : workers[b][k].state = "done"

ParallelReturned == pc = "returned" /\ result.from = "parallel"

\* C34 as stated: every execution of the parallel workflow makes exactly one
\* summary call.
C34_ExactlyOneSummary == ParallelReturned => integration.summary_calls = 1

\* C34: no repair call is made before the barrier of the last batch (every
\* batch is through and every worker has ended), the integration loop runs
\* only when every repair attempt has ended, at most one summary call is made
\* and only after the integration loop; when execute() returns, exactly one
\* summary call has been made if the plan has modules and an agent is
\* configured, and none otherwise.
C34_PhasesOrdered ==
    /\ (repairs # <<>> \/ pc = "repair") =>
          (batch_idx = Len(architecture.execution_order) /\ EveryWorkerDone)
    /\ (integration.ran \/ pc = "integration") => RepairPassDone
    /\ integration.summary_calls <= 1
    /\ integration.summary_calls = 1 => (integration.ran /\ pc = "returned")
    /\ ParallelReturned =>
          (integration.summary_calls = 1 <=> (agents # {} /\ architecture.modules # <<>>))
    /\ ParallelReturned =>
          (integration.summary_calls = 0 <=> ~integration.ran)

\* execute() has returned after two batches, a repair pass that made a repair
\* call, the integration loop and the summary call
C34_Witness ==
    /\ ParallelReturned
    /\ Len(workers) = 2
    /\ \E n \in 1..Len(repairs) : repairs[n].ran
    /\ integration.ran
    /\ integration.summary_calls = 1

(***************************************************************************)
(* Budgets of the loops of the parallel workflow.                          *)
(***************************************************************************)
\* C35: a module worker makes at most 15 agent calls, side-calls for help
\* included, a repair at most 10 and the integration loop at most 30.
C35_AgentCallBudgets ==
    /\ loop_kind = "module" => loop.agent_calls <= ModuleMaxIterations
    /\ loop_kind = "repair" => loop.agent_calls <= RepairMaxIterations
    /\ loop_kind = "integration" => loop.agent_calls <= IntegrateMaxIterations

ToolResults == {"tool_output", "tool_error", "tool_exception", "tool_unknown"}

\* C36: an iteration of the module loop whose response carries tool calls
\* appends exactly one tool-result message per tool call.
C36_OneResultPerRequest ==
    [][(ModuleStep /\ TurnTaken.kind = "tools") =>
          Count(loop'.appended, ToolResults) = Len(TurnTaken.calls)]_vars

(***************************************************************************)
(* Names of execution_order that no module has.                            *)
(***************************************************************************)
BatchLaunched == pc = "launch" /\ batch_idx' = batch_idx + 1

\* C37: launching a batch creates one worker per name of the batch that a
\* module has, in the batch's order, and none for the other names; no task
\* is created or changed and nothing is raised.
C37_UnknownNameSkipped ==
    [][BatchLaunched =>
          LET batch == architecture.execution_order[batch_idx']
              known == SelectSeq(batch, KnownName)
              launched == workers'[batch_idx']
          IN  /\ Len(launched) = Len(known)
              /\ \A k \in 1..Len(known) :
                    launched[k].name = known[k] /\ launched[k].state = "created"
              /\ tasks' = tasks
              /\ fault' = fault
              /\ pc' \in {"launch", "gather"}]_vars

\* a batch of two names, one of them unknown, whose single worker has ended
C37_Witness ==
    \E b \in 1..Len(workers) :
        /\ Len(architecture.execution_order[b]) = 2
        /\ \E k \in 1..2 : ~KnownName(architecture.execution_order[b][k])
        /\ Len(workers[b]) = 1
        /\ workers[b][1].state = "done"
        /\ workers[b][1].exit_status = "completed"

(***************************************************************************)
(* Tool failures in the quick response.                                    *)
(***************************************************************************)
\* C38: no exception of a tool leaves _quick_response and collaborate().
C38_QuickToolErrorFedBack == ~(pc = "raised" /\ fault = "tool_execute")

(***************************************************************************)
(* Contributions kept by aggregate.                                        *)
(***************************************************************************)
\* C39: the non-blank content of every successful result is part of the
\* merged content.
C39_NoContributionDropped ==
    (pc = "returned" /\ entry = "aggregate") =>
        \A i \in 1..Len(results) :
            (results[i].success /\ Strip(results[i].content) # "") =>
                Contains(aggregated.content, <<results[i].content>>)

====
